---- MODULE Spec2Model ----
(***************************************************************************)
(* A model of forwarded-for (src/index.js): parse(obj, headers, whitelist) *)
(* resolves the address of a connection from the proxy headers or, when    *)
(* these give nothing, from the shape of the connection object.            *)
(*                                                                         *)
(* JavaScript values are records [t, s, n, d]: t is the kind of the value, *)
(* s the text of a string, n/d the value of a number.  A string is a       *)
(* sequence of symbols: the separators "," and " ", and words (an address  *)
(* literal, a numeric literal, or other text), two words never adjacent.   *)
(***************************************************************************)
EXTENDS Integers, Sequences, FiniteSets, TLC

VARIABLES proxies, obj, headers, whitelist, result, pc, served

vars == <<proxies, obj, headers, whitelist, result, pc, served>>

(***************************************************************************)
(* Bounds of the model.                                                    *)
(***************************************************************************)
\* the longest value of an ip header, in symbols
MaxLen == 4

\* the longest value of a port header, in symbols
MaxPortLen == 3

(***************************************************************************)
(* JavaScript values.                                                      *)
(***************************************************************************)
JSValue(t, s, n, d) == [t |-> t, s |-> s, n |-> n, d |-> d]

\* a property the object does not have
Absent == JSValue("absent", <<>>, 0, 1)

Undefined == JSValue("undefined", <<>>, 0, 1)

Null == JSValue("null", <<>>, 0, 1)

NaN == JSValue("NaN", <<>>, 0, 1)

Str(s) == JSValue("string", s, 0, 1)

\* the number n/d
Num(n, d) == JSValue("number", <<>>, n, d)

\* the value of reading a property: undefined when the object has none
Read(v) == IF v.t = "absent" THEN Undefined ELSE v

\* ToBoolean, as `||`, `!!` and `?:` apply it
Truthy(v) ==
  CASE v.t = "string" -> v.s # <<>>
    [] v.t = "number" -> v.n # 0
    [] v.t = "object" -> TRUE
    [] OTHER -> FALSE

Space == " "

Comma == ","

IPv4Literals == {"203.0.113.5", "10.0.0.1", "192.168.1.10", "10.1.1.1", "127.0.0.1"}

IPv6Literals == {"2001:db8::1"}

\* the words that are numeric literals, with the number each denotes
NumericLiterals == {"443", "8080", "5000", "9000", "-5", "80.5"}

NumericValue(w) ==
  CASE w = "443" -> Num(443, 1)
    [] w = "8080" -> Num(8080, 1)
    [] w = "5000" -> Num(5000, 1)
    [] w = "9000" -> Num(9000, 1)
    [] w = "-5" -> Num(0 - 5, 1)
    [] w = "80.5" -> Num(161, 2)

\* net.isIP: 4 or 6 for an address literal, 0 for anything else (the empty
\* string and a literal with a space before or after it included)
isIP(token) ==
  IF Len(token) = 1 /\ token[1] \in IPv4Literals THEN 4
  ELSE IF Len(token) = 1 /\ token[1] \in IPv6Literals THEN 6
  ELSE 0

\* String.prototype.split with a one-character separator
RECURSIVE split(_, _)
split(s, sep) ==
  IF \A i \in 1..Len(s) : s[i] # sep
  THEN <<s>>
  ELSE LET k == CHOOSE i \in 1..Len(s) :
                  s[i] = sep /\ \A j \in 1..(i - 1) : s[j] # sep
       IN <<SubSeq(s, 1, k - 1)>> \o split(SubSeq(s, k + 1, Len(s)), sep)

\* the white space StringToNumber strips from both ends
RECURSIVE Trim(_)
Trim(s) ==
  IF s = <<>> THEN s
  ELSE IF Head(s) = Space THEN Trim(Tail(s))
  ELSE IF s[Len(s)] = Space THEN Trim(SubSeq(s, 1, Len(s) - 1))
  ELSE s

\* ToNumber, as the unary + applies it
ToNumber(v) ==
  CASE v.t = "number" -> v
    [] v.t = "null" -> Num(0, 1)
    [] v.t = "string" ->
         LET w == Trim(v.s)
         IN IF w = <<>> THEN Num(0, 1)
            ELSE IF Len(w) = 1 /\ w[1] \in NumericLiterals THEN NumericValue(w[1])
            ELSE NaN
    [] OTHER -> NaN

Loopback == Str(<<"127.0.0.1">>)

(***************************************************************************)
(* The Result, and what a call can end in: a Forwarded, undefined (the     *)
(* header search found nothing to return) or a TypeError thrown.           *)
(***************************************************************************)
ForwardedNoPortDefault(ip, port, secured) ==
  [kind |-> "Forwarded",
   ip |-> IF Truthy(ip) THEN ip ELSE Loopback,
   secure |-> Truthy(secured),
   port |-> ToNumber(port)]

ForwardedSecureInverted(ip, port, secured) ==
  [kind |-> "Forwarded",
   ip |-> IF Truthy(ip) THEN ip ELSE Loopback,
   secure |-> ~Truthy(secured),
   port |-> IF Truthy(ToNumber(port)) THEN ToNumber(port) ELSE Num(0, 1)]

Forwarded(ip, port, secured) ==
  [kind |-> "Forwarded",
   ip |-> IF Truthy(ip) THEN ip ELSE Loopback,
   secure |-> Truthy(secured),
   port |-> IF Truthy(ToNumber(port)) THEN ToNumber(port) ELSE Num(0, 1)]

NoMatch == [kind |-> "undefined", ip |-> Undefined, secure |-> FALSE, port |-> Undefined]

TypeError == [kind |-> "TypeError", ip |-> Undefined, secure |-> FALSE, port |-> Undefined]

(***************************************************************************)
(* The proxy header table.                                                 *)
(***************************************************************************)
ProxyTablePortsCrossed ==
  << [ip |-> "x-forwarded-for", port |-> "z-forwarded-port", proto |-> "x-forwarded-proto"],
     [ip |-> "z-forwarded-for", port |-> "x-forwarded-port", proto |-> "z-forwarded-proto"],
     [ip |-> "forwarded", port |-> "forwarded-port", proto |-> "forwarded-proto"],
     [ip |-> "x-real-ip", port |-> "x-real-port"] >>

ProxyTable ==
  << [ip |-> "x-forwarded-for", port |-> "x-forwarded-port", proto |-> "x-forwarded-proto"],
     [ip |-> "z-forwarded-for", port |-> "z-forwarded-port", proto |-> "z-forwarded-proto"],
     [ip |-> "forwarded", port |-> "forwarded-port", proto |-> "forwarded-proto"],
     [ip |-> "x-real-ip", port |-> "x-real-port"] >>

\* headers[name] || ''
HeaderOrEmpty(hdrs, name) ==
  IF name \in DOMAIN hdrs /\ hdrs[name] # <<>> THEN hdrs[name] ELSE <<>>

\* the loop of forwarded() from entry i on
RECURSIVE forwardedFrom(_, _, _)
forwardedFrom(hdrs, table, i) ==
  IF i > Len(table) THEN NoMatch
  ELSE IF table[i].ip \notin DOMAIN hdrs THEN forwardedFrom(hdrs, table, i + 1)
  ELSE LET ports == split(HeaderOrEmpty(hdrs, table[i].port), Comma)
           ips == split(HeaderOrEmpty(hdrs, table[i].ip), Comma)
       IN IF Len(ips) = 0 \/ \E k \in 1..Len(ips) : isIP(ips[k]) = 0
          THEN NoMatch
          ELSE Forwarded(Str(Head(ips)), Str(Head(ports)), Undefined)

\* the same loop, going on to the next entry when a value is not valid
RECURSIVE forwardedFromNextOnInvalid(_, _, _)
forwardedFromNextOnInvalid(hdrs, table, i) ==
  IF i > Len(table) THEN NoMatch
  ELSE IF table[i].ip \notin DOMAIN hdrs THEN forwardedFromNextOnInvalid(hdrs, table, i + 1)
  ELSE LET ports == split(HeaderOrEmpty(hdrs, table[i].port), Comma)
           ips == split(HeaderOrEmpty(hdrs, table[i].ip), Comma)
       IN IF Len(ips) = 0 \/ \E k \in 1..Len(ips) : isIP(ips[k]) = 0
          THEN forwardedFromNextOnInvalid(hdrs, table, i + 1)
          ELSE Forwarded(Str(Head(ips)), Str(Head(ports)), Undefined)

forwardedNextOnInvalid(hdrs, table) == forwardedFromNextOnInvalid(hdrs, table, 1)

forwarded(hdrs, table) == forwardedFrom(hdrs, table, 1)

(***************************************************************************)
(* The connection object: obj.t is "object", "undefined" (no object was    *)
(* passed) or "number" (a primitive); a property is Absent or holds a      *)
(* value; connection and socket are Absent, null or an object.             *)
(***************************************************************************)
Has(v) == v.t # "absent"

\* 'object' === typeof v
TypeofObject(v) == v.t \in {"object", "null"}

\* the fallback chain on the `in` tests replaced by tests of the value
TransportFallbackByValue(o) ==
  IF o.t = "undefined" THEN TypeError
  ELSE
    LET connection == o.connection
        socket == IF Truthy(connection) THEN connection.socket ELSE o.socket
    IN IF o.t = "object" /\ Truthy(o.remoteAddress)
       THEN Forwarded(Read(o.remoteAddress), Read(o.remotePort), Undefined)
       ELSE IF o.t = "object" /\ Truthy(o.address) /\ Truthy(o.port)
       THEN Forwarded(Read(o.address), Read(o.port), Undefined)
       ELSE IF TypeofObject(connection) /\ connection.t = "null"
       THEN TypeError
       ELSE IF TypeofObject(connection) /\ Truthy(connection.remoteAddress)
       THEN Forwarded(Read(connection.remoteAddress), Read(connection.remotePort), Undefined)
       ELSE IF TypeofObject(socket) /\ socket.t = "null"
       THEN TypeError
       ELSE IF TypeofObject(socket) /\ Truthy(socket.remoteAddress)
       THEN Forwarded(Read(socket.remoteAddress), Read(socket.remoteAddress), Undefined)
       ELSE Forwarded(Undefined, Undefined, Undefined)

\* parse() from `connection = obj.connection` on, when the headers gave nothing
TransportFallback(o) ==
  IF o.t = "undefined" THEN TypeError
  ELSE
    LET connection == o.connection
        socket == IF Truthy(connection) THEN connection.socket ELSE o.socket
    IN IF o.t = "object" /\ Has(o.remoteAddress)
       THEN Forwarded(Read(o.remoteAddress), Read(o.remotePort), Undefined)
       ELSE IF o.t = "object" /\ Has(o.address) /\ Has(o.port)
       THEN Forwarded(Read(o.address), Read(o.port), Undefined)
       ELSE IF TypeofObject(connection) /\ connection.t = "null"
       THEN TypeError
       ELSE IF TypeofObject(connection) /\ Has(connection.remoteAddress)
       THEN Forwarded(Read(connection.remoteAddress), Read(connection.remotePort), Undefined)
       ELSE IF TypeofObject(socket) /\ socket.t = "null"
       THEN TypeError
       ELSE IF TypeofObject(socket) /\ Has(socket.remoteAddress)
       THEN Forwarded(Read(socket.remoteAddress), Read(socket.remoteAddress), Undefined)
       ELSE Forwarded(Undefined, Undefined, Undefined)

parse(o, hdrs, wl, table) ==
  LET proxied == forwarded(hdrs, table)
  IN IF o.t = "undefined" THEN TypeError
     ELSE IF proxied.kind = "Forwarded" THEN proxied
     ELSE TransportFallback(o)

\* a call that shifts the table instead of the array it split
TableAfterShifted(hdrs, table) ==
  IF forwarded(hdrs, table).kind = "Forwarded" THEN Tail(table) ELSE table

\* the table after a call: forwarded() indexes proxies and assigns nothing to
\* it; shift() takes from the arrays ips and ports, which split() made
TableAfter(hdrs, table) == table

(***************************************************************************)
(* The arguments of the calls.                                             *)
(***************************************************************************)
RECURSIVE SeqsUpTo(_, _)
SeqsUpTo(A, n) ==
  IF n = 0 THEN {<<>>}
  ELSE LET P == SeqsUpTo(A, n - 1)
       IN P \cup {Append(s, a) : s \in P, a \in A}

IsWord(c) == c \notin {Comma, Space}

\* the strings of at most n symbols of A
Strings(A, n) ==
  {s \in SeqsUpTo(A, n) : \A i \in 1..(Len(s) - 1) : ~(IsWord(s[i]) /\ IsWord(s[i + 1]))}

IpAlphabet == {"203.0.113.5", "10.0.0.1", "not-an-ip", Comma, Space}

PortAlphabet == {"443", "8080", "-5", "80.5", "abc", Comma, Space}

IpStrings == Strings(IpAlphabet, MaxLen)

PortStrings == Strings(PortAlphabet, MaxPortLen)

EmptyHeaders == [name \in {} |-> <<>>]

\* the headers map holding the given <<name, value>> pairs
HeaderMap(pairs) ==
  [name \in {p[1] : p \in pairs} |-> (CHOOSE p \in pairs : p[1] = name)[2]]

NoSocket == [t |-> "absent", remoteAddress |-> Absent]

NullSocket == [t |-> "null", remoteAddress |-> Absent]

Socket(remoteAddress) == [t |-> "object", remoteAddress |-> remoteAddress]

NoConnection ==
  [t |-> "absent", remoteAddress |-> Absent, remotePort |-> Absent, socket |-> NoSocket]

NullConnection ==
  [t |-> "null", remoteAddress |-> Absent, remotePort |-> Absent, socket |-> NoSocket]

Connection(remoteAddress, remotePort, socket) ==
  [t |-> "object", remoteAddress |-> remoteAddress, remotePort |-> remotePort,
   socket |-> socket]

Object(remoteAddress, remotePort, address, port, connection, socket) ==
  [t |-> "object", remoteAddress |-> remoteAddress, remotePort |-> remotePort,
   address |-> address, port |-> port, connection |-> connection, socket |-> socket]

EmptyObject == Object(Absent, Absent, Absent, Absent, NoConnection, NoSocket)

\* no connection object passed
Missing == [EmptyObject EXCEPT !.t = "undefined"]

\* a primitive passed as the connection object
Primitive == [EmptyObject EXCEPT !.t = "number"]

Sockets ==
  {NoSocket, NullSocket}
    \cup {Socket(a) : a \in {Absent, Str(<<"203.0.113.5">>), Str(<<"5000">>)}}

Connections ==
  {NoConnection, NullConnection}
    \cup {Connection(a, p, s) :
            a \in {Absent, Undefined, Str(<<"10.0.0.1">>)},
            p \in {Absent, Num(8080, 1)},
            s \in Sockets}

ConnObjects ==
  {Object(ra, rp, a, p, c, s) :
     ra \in {Absent, Undefined, Str(<<>>), Str(<<"192.168.1.10">>), Num(42, 1)},
     rp \in {Absent, Num(5000, 1), Num(0 - 5, 1), Num(161, 2), Str(<<"abc">>)},
     a \in {Absent, Str(<<>>), Str(<<"10.1.1.1">>)},
     p \in {Absent, Undefined, Num(9000, 1)},
     c \in Connections,
     s \in Sockets}

SmallObjects ==
  {Missing, Primitive, EmptyObject,
   Object(Str(<<"192.168.1.10">>), Num(5000, 1), Absent, Absent, NoConnection, NoSocket),
   Object(Absent, Absent, Absent, Absent, NoConnection, NullSocket)}

Whitelists == {Undefined, Str(<<"10.0.0.1">>)}

\* the valid address and the port the priority calls give to entry i
PriorityIp(i) ==
  CASE i = 1 -> <<"203.0.113.5">>
    [] i = 2 -> <<"10.0.0.1">>
    [] i = 3 -> <<"2001:db8::1">>
    [] OTHER -> <<"192.168.1.10">>

PriorityPort(i) ==
  CASE i = 1 -> <<"443">>
    [] i = 2 -> <<"8080">>
    [] i = 3 -> <<"5000">>
    [] OTHER -> <<"9000">>

IpChoices == {"absent", "valid", "invalid", "empty"}

\* the names of the headers, by the place of their entry in the table
IpHeader(i) ==
  CASE i = 1 -> "x-forwarded-for"
    [] i = 2 -> "z-forwarded-for"
    [] i = 3 -> "forwarded"
    [] OTHER -> "x-real-ip"

PortHeader(i) ==
  CASE i = 1 -> "x-forwarded-port"
    [] i = 2 -> "z-forwarded-port"
    [] i = 3 -> "forwarded-port"
    [] OTHER -> "x-real-port"

ProtoHeaders == {"x-forwarded-proto", "z-forwarded-proto", "forwarded-proto"}

Entries == 1..4

PriorityHeaders(ipOf, portOf, proto) ==
  HeaderMap(
    {<<IpHeader(i),
       CASE ipOf[i] = "valid" -> PriorityIp(i)
         [] ipOf[i] = "invalid" -> <<"not-an-ip">>
         [] OTHER -> <<>> >> : i \in {j \in Entries : ipOf[j] # "absent"}}
    \cup {<<PortHeader(i), PriorityPort(i)>> : i \in {j \in Entries : portOf[j]}}
    \cup {<<h, <<"https">> >> : h \in IF proto THEN ProtoHeaders ELSE {}})

NoResult == [kind |-> "none", ip |-> Undefined, secure |-> FALSE, port |-> Undefined]

(***************************************************************************)
(* The calls.  A caller builds the arguments, parse() runs to its end, and *)
(* the caller takes the Result away.                                       *)
(***************************************************************************)
Init ==
  /\ proxies = ProxyTable
  /\ obj = Missing
  /\ headers = EmptyHeaders
  /\ whitelist = Undefined
  /\ result = NoResult
  /\ pc = "idle"
  /\ served = FALSE

Prepare(o, hdrs, wl) ==
  /\ obj' = o
  /\ headers' = hdrs
  /\ whitelist' = wl
  /\ pc' = "ready"
  /\ UNCHANGED <<proxies, result, served>>

\* one ip header with any value, with or without its port header
PrepareChain ==
  /\ pc = "idle"
  /\ \E i \in Entries, v \in IpStrings, withPort \in BOOLEAN, o \in SmallObjects :
       Prepare(o,
               HeaderMap({<<IpHeader(i), v>>}
                           \cup IF withPort
                                THEN {<<PortHeader(i), <<"443", Comma, "8080">> >>}
                                ELSE {}),
               Undefined)

\* one valid ip header and its port header with any value
PreparePort ==
  /\ pc = "idle"
  /\ \E i \in Entries, v \in PortStrings, o \in SmallObjects :
       Prepare(o,
               HeaderMap({<<IpHeader(i), <<"203.0.113.5">> >>, <<PortHeader(i), v>>}),
               Undefined)

\* any of the ip headers, valid or not, and any of the port and proto headers
PreparePriority ==
  /\ pc = "idle"
  /\ \E ipOf \in [Entries -> IpChoices],
        portOf \in [Entries -> BOOLEAN],
        proto \in BOOLEAN,
        o \in {EmptyObject, Missing},
        wl \in Whitelists :
       Prepare(o, PriorityHeaders(ipOf, portOf, proto), wl)

\* any connection object, with no proxy header or with one that is not valid
PrepareTransport ==
  /\ pc = "idle"
  /\ \E o \in ConnObjects,
        hdrs \in {EmptyHeaders,
                  HeaderMap({<<"x-forwarded-for", <<"not-an-ip">> >>,
                             <<"z-forwarded-for", <<"10.0.0.1">> >>,
                             <<"z-forwarded-port", <<"8080">> >>})} :
       Prepare(o, hdrs, Undefined)

Resolve ==
  /\ pc = "ready"
  /\ result' = parse(obj, headers, whitelist, proxies)
  /\ proxies' = TableAfter(headers, proxies)
  /\ pc' = "returned"
  /\ UNCHANGED <<obj, headers, whitelist, served>>

Release ==
  /\ pc = "returned"
  /\ obj' = Missing
  /\ headers' = EmptyHeaders
  /\ whitelist' = Undefined
  /\ result' = NoResult
  /\ pc' = "idle"
  /\ served' = TRUE
  /\ UNCHANGED proxies

Next ==
  \/ PrepareChain
  \/ PreparePort
  \/ PreparePriority
  \/ PrepareTransport
  \/ Resolve
  \/ Release

Spec == Init /\ [][Next]_vars

(***************************************************************************)
(* The claims.                                                             *)
(***************************************************************************)
Returned == pc = "returned"

\* the place in the fixed order of the first ip header the map holds, 0 when
\* it holds none
FirstPresent(hdrs) ==
  IF \A i \in Entries : IpHeader(i) \notin DOMAIN hdrs THEN 0
  ELSE CHOOSE i \in Entries :
         /\ IpHeader(i) \in DOMAIN hdrs
         /\ \A j \in 1..(i - 1) : IpHeader(j) \notin DOMAIN hdrs

\* every comma-separated token of the value is an address literal
ValidValue(s) == \A k \in 1..Len(split(s, Comma)) : isIP(split(s, Comma)[k]) # 0

\* the header resolver has a match: the first ip header present is valid
HeaderMatch(hdrs) ==
  FirstPresent(hdrs) # 0 /\ ValidValue(hdrs[IpHeader(FirstPresent(hdrs))])

\* the header resolver has none: an ip header is present and the first is not valid
HeaderInvalid(hdrs) ==
  FirstPresent(hdrs) # 0 /\ ~ValidValue(hdrs[IpHeader(FirstPresent(hdrs))])

\* address literals separated by a comma followed by a space, two at least
CommaSpaceChain(s) ==
  /\ Len(s) >= 4
  /\ Len(s) % 3 = 1
  /\ \A i \in 1..Len(s) :
       CASE i % 3 = 1 -> s[i] \in IPv4Literals \cup IPv6Literals
         [] i % 3 = 2 -> s[i] = Comma
         [] OTHER -> s[i] = Space

\* the number the first element of a port header value stands for, 0 when it
\* stands for none
FirstPort(s) ==
  LET n == ToNumber(Str(Head(split(s, Comma))))
  IN IF n.t = "number" /\ n.n # 0 THEN n ELSE Num(0, 1)

\* the decision table of the transport fallback, as the specification gives it
DecisionTable(o) ==
  LET socket == IF Has(o.connection) THEN o.connection.socket ELSE o.socket
  IN IF Has(o.remoteAddress)
     THEN Forwarded(Read(o.remoteAddress), Read(o.remotePort), Undefined)
     ELSE IF Has(o.address) /\ Has(o.port)
     THEN Forwarded(Read(o.address), Read(o.port), Undefined)
     ELSE IF Has(o.connection.remoteAddress)
     THEN Forwarded(Read(o.connection.remoteAddress), Read(o.connection.remotePort), Undefined)
     ELSE IF Has(socket.remoteAddress)
     THEN Forwarded(Read(socket.remoteAddress), Read(socket.remoteAddress), Undefined)
     ELSE [kind |-> "Forwarded", ip |-> Loopback, secure |-> FALSE, port |-> Num(0, 1)]

\* a candidate after the object's own remoteAddress carries a usable address
LaterUsable(o) ==
  \/ Has(o.address) /\ Has(o.port) /\ Truthy(o.address)
  \/ o.connection.t = "object" /\ Truthy(o.connection.remoteAddress)
  \/ o.connection.t = "object" /\ o.connection.socket.t = "object"
       /\ Truthy(o.connection.socket.remoteAddress)
  \/ o.connection.t = "absent" /\ o.socket.t = "object" /\ Truthy(o.socket.remoteAddress)

\* the values of the address fields of a connection object
AddressFields(o) ==
  {o.remoteAddress, o.address, o.connection.remoteAddress,
   o.connection.socket.remoteAddress, o.socket.remoteAddress}

\* C1: a call with a headers map and a connection object whose fields are each
\* absent or present with any value, null included, returns a Result and
\* throws nothing.
C1_NeverThrows ==
  (Returned /\ obj.t = "object") => result.kind = "Forwarded"

\* C2: when the first ip header present holds a chain of valid hops separated
\* by a comma and a space, the Result has the first hop as ip, and 443 as port
\* when the paired port header is "443,8080".
C2_FirstHopOfChain ==
  (Returned /\ obj.t = "object" /\ FirstPresent(headers) # 0
     /\ CommaSpaceChain(headers[IpHeader(FirstPresent(headers))]))
  => /\ result.kind = "Forwarded"
     /\ result.ip = Str(<<headers[IpHeader(FirstPresent(headers))][1]>>)
     /\ (PortHeader(FirstPresent(headers)) \in DOMAIN headers
           /\ headers[PortHeader(FirstPresent(headers))] = <<"443", Comma, "8080">>)
        => result.port = Num(443, 1)

\* C3: when the first ip header present is empty or holds a token that is no
\* address, the call ends exactly as the transport fallback ends for the
\* connection object, whatever the lower-priority headers hold.
C3_InvalidHeaderFallsBack ==
  (Returned /\ HeaderInvalid(headers)) => result = TransportFallback(obj)

\* C3 witness: x-forwarded-for is not valid, z-forwarded-for is, and the Result
\* is the one of the object's remoteAddress and remotePort.
C3_Witness ==
  /\ Returned
  /\ HeaderInvalid(headers)
  /\ "z-forwarded-for" \in DOMAIN headers
  /\ headers["z-forwarded-for"] = <<"10.0.0.1">>
  /\ result.kind = "Forwarded"
  /\ result.ip = Str(<<"192.168.1.10">>)
  /\ result.port = Num(5000, 1)

\* C4: when the first ip header present in the order x-forwarded-for,
\* z-forwarded-for, forwarded, x-real-ip is valid, a call on a connection
\* object takes the ip from it and the port from its own port header alone, 0
\* when that header is missing.
C4_FirstEntryWins ==
  (Returned /\ obj.t # "undefined" /\ HeaderMatch(headers))
  => LET i == FirstPresent(headers)
     IN /\ result.kind = "Forwarded"
        /\ result.ip = Str(Head(split(headers[IpHeader(i)], Comma)))
        /\ result.port = IF PortHeader(i) \in DOMAIN headers
                         THEN FirstPort(headers[PortHeader(i)])
                         ELSE Num(0, 1)

\* C4 witness: z-forwarded-for and x-real-ip are both valid, the port header of
\* z-forwarded-for is missing, those of x-forwarded-for (whose ip header is
\* absent) and of x-real-ip are present, and the Result is z-forwarded-for's
\* address with port 0.
C4_Witness ==
  /\ Returned
  /\ FirstPresent(headers) = 2
  /\ HeaderMatch(headers)
  /\ "x-real-ip" \in DOMAIN headers
  /\ ValidValue(headers["x-real-ip"])
  /\ "z-forwarded-port" \notin DOMAIN headers
  /\ "x-forwarded-port" \in DOMAIN headers
  /\ "x-real-port" \in DOMAIN headers
  /\ result.kind = "Forwarded"
  /\ result.ip = Str(<<"10.0.0.1">>)
  /\ result.port = Num(0, 1)

\* C5: when the header resolver has a match, the call ends in the Result of
\* the headers alone, whatever the connection object is, a missing one included.
C5_IndependentOfObject ==
  (Returned /\ HeaderMatch(headers))
  => /\ result.kind = "Forwarded"
     /\ result.ip = Str(Head(split(headers[IpHeader(FirstPresent(headers))], Comma)))

C7_DecisionTable ==
  (Returned /\ obj.t = "object" /\ ~HeaderMatch(headers)) => result = DecisionTable(obj)

\* C8: a remoteAddress the object has with an empty value counts as absent: when
\* a later candidate carries a usable address, the Result is not the loopback
\* default.
C8_EmptyFieldSkipped ==
  (Returned /\ obj.t = "object" /\ ~HeaderMatch(headers)
     /\ Has(obj.remoteAddress) /\ ~Truthy(obj.remoteAddress) /\ LaterUsable(obj))
  => result.kind = "Forwarded" /\ result.ip # Loopback

\* C8, amended: a field the object has with an empty value does not count as
\* absent: the step of remoteAddress, or of address and port when remoteAddress
\* is absent, is taken, and the Result has the loopback address and that step's
\* port, even when a later candidate carries a usable address.
C8_PresentFieldCommits ==
  /\ (Returned /\ obj.t = "object" /\ ~HeaderMatch(headers)
        /\ Has(obj.remoteAddress) /\ ~Truthy(obj.remoteAddress))
     => /\ result.kind = "Forwarded"
        /\ result.ip = Loopback
        /\ result.port = Forwarded(Undefined, Read(obj.remotePort), Undefined).port
  /\ (Returned /\ obj.t = "object" /\ ~HeaderMatch(headers)
        /\ ~Has(obj.remoteAddress) /\ Has(obj.address) /\ Has(obj.port)
        /\ ~Truthy(obj.address))
     => /\ result.kind = "Forwarded"
        /\ result.ip = Loopback
        /\ result.port = Forwarded(Undefined, Read(obj.port), Undefined).port

\* C8 witness: remoteAddress is present and undefined, address and port hold a
\* usable address, and the Result is the loopback address.
C8_Witness ==
  /\ Returned
  /\ ~HeaderMatch(headers)
  /\ obj.t = "object"
  /\ obj.remoteAddress = Undefined
  /\ obj.address = Str(<<"10.1.1.1">>)
  /\ obj.port = Num(9000, 1)
  /\ result.kind = "Forwarded"
  /\ result.ip = Loopback

\* C9: no Result has secure = true, whatever the proto headers hold.
C9_NeverSecure ==
  (Returned /\ result.kind = "Forwarded") => result.secure = FALSE

\* C9 witness: x-forwarded-for is valid, x-forwarded-proto is "https", and the
\* Result is the one of the headers.
C9_Witness ==
  /\ Returned
  /\ FirstPresent(headers) = 1
  /\ HeaderMatch(headers)
  /\ "x-forwarded-proto" \in DOMAIN headers
  /\ headers["x-forwarded-proto"] = <<"https">>
  /\ result.kind = "Forwarded"
  /\ result.secure = FALSE

\* C10: no step changes the proxy header table, and a call leaves its headers
\* map and its connection object as they were and ends as its own connection
\* object and headers decide, whatever calls came before it and whatever the
\* whitelist is.
C10_Stateless ==
  [][/\ proxies' = ProxyTable
     /\ pc = "ready" => /\ obj' = obj
                        /\ headers' = headers
                        /\ result' = parse(obj, headers, Undefined, ProxyTable)]_vars

\* C10 witness: a call that follows another one and is given a whitelist has
\* returned the Result of its headers, the table being the initial one.
C10_Witness ==
  /\ Returned
  /\ served
  /\ whitelist # Undefined
  /\ HeaderMatch(headers)
  /\ result.kind = "Forwarded"
  /\ proxies = ProxyTable

====
